---------------------------- MODULE Spec2Model ----------------------------
(***************************************************************************)
(* Model of ancy.py: the Streamlit page `main`, the session state it keeps *)
(* (st.session_state.messages), and the completion client                  *)
(* AncyTravelGuide.chat / _make_api_request with its error mapping.        *)
(*                                                                         *)
(* Text values (Python str that the program inspects) are sequences of     *)
(* chunks: user input is a sequence of one-character chunks so that        *)
(* str.strip() can be computed; the program's literal messages are a       *)
(* single chunk each (emoji prefixes left out), and f-strings are the      *)
(* concatenation of their literal and interpolated chunks.                 *)
(***************************************************************************)
EXTENDS Integers, Sequences, FiniteSets, TLC

VARIABLES
    GROQ_API_KEY,      \* os.getenv("GROQ_API_KEY"): [set, value]
    session_keys,      \* the keys present in st.session_state
    messages,          \* st.session_state.messages, the list object
    ancy_initialized,  \* st.session_state.ancy_initialized
    ancy,              \* the AncyTravelGuide object of the current run
    user_input,        \* the text of the submission being handled
    request,           \* the requests.post call in flight / last issued
    posts,             \* requests.post calls made by the current chat call
    outcome,           \* how that requests.post ended: raised or a response
    response,          \* the value chat returned: [returned, value]
    pc                 \* where the script is: blocked, stopped or ended

vars == <<GROQ_API_KEY, session_keys, messages, ancy_initialized, ancy,
          user_input, request, outcome, posts, response, pc>>

---------------------------------------------------------------------------
(* Bounds of the model. *)

\* longest store the session specification lets grow (turns)
MaxStore == 12

\* longest history handed to chat in the client specification (turns)
MaxHist == 11

---------------------------------------------------------------------------
(* Program constants. *)

GROQ_API_URL == "https://api.groq.com/openai/v1/chat/completions"

MODEL_NAME == "llama3-8b-8192"

SYSTEM_PROMPT == <<"You are Ancy, a warm and inspiring AI travel guide ...">>

\* conversation_history[-10:]
HistoryWindow == 10

\* timeout=30
RequestTimeout == 30

\* "max_tokens": 1000
MaxTokens == 1000

\* len(api_key) > 10
MinKeyLen == 10

PLACEHOLDER_KEY == "YOUR_GROQ_API_KEY_HERE"

---------------------------------------------------------------------------
(* Python helpers. *)

IsSpace(c) == c \in {" ", "\t", "\n"}

RECURSIVE LStrip(_)
LStrip(t) ==
    IF t # <<>> /\ IsSpace(Head(t)) THEN LStrip(Tail(t)) ELSE t

RECURSIVE RStrip(_)
RStrip(t) ==
    IF t # <<>> /\ IsSpace(t[Len(t)])
    THEN RStrip(SubSeq(t, 1, Len(t) - 1))
    ELSE t

\* str.strip()
Strip(t) == RStrip(LStrip(t))

\* truth value of a str: non-empty
Truthy(t) == t # <<>>

\* s[:n] in place of s[-n:]: the first n elements
LastSlice_First(s, n) ==
    IF Len(s) <= n THEN s ELSE SubSeq(s, 1, n)

\* s[-n:] for n > 0: the last n elements, all of s when it is shorter
LastSlice(s, n) ==
    IF Len(s) <= n THEN s ELSE SubSeq(s, Len(s) - n + 1, Len(s))

\* Python values are tagged by their type; a str carries its text
JStr(text) == [t |-> "str", v |-> text]

JNull == [t |-> "NoneType"]

\* {"role": "user", "content": text}
UserTurn(text) == [role |-> "user", content |-> JStr(text)]

\* the answer stored under the role of the line above it
AssistantTurn_AsUser(value) == [role |-> "user", content |-> value]

\* {"role": "assistant", "content": value}
AssistantTurn(value) == [role |-> "assistant", content |-> value]

\* {"role": "system", "content": SYSTEM_PROMPT}
SystemTurn == [role |-> "system", content |-> JStr(SYSTEM_PROMPT)]

\* an append that keeps the list at the request's window
Append_Capped(l, x) == LastSlice(l \o <<x>>, HistoryWindow)

\* list.append(x) on the list object l
Append_(l, x) == l \o <<x>>

---------------------------------------------------------------------------
(* JSON values as response.json() yields them, tagged by their Python type. *)

JList(seq) == [t |-> "list", v |-> seq]

\* a dict; every key of a parsed JSON object is a str
JObj(rec) == [t |-> "dict", v |-> rec]

EmptyDict == JObj([k \in {} |-> JNull])

Raised(exc, arg) == [ok |-> FALSE, exc |-> exc, arg |-> arg]

Returned(v) == [ok |-> TRUE, v |-> v]

\* x[k] for a str key k
GetKey(x, k) ==
    CASE x.t = "dict" ->
            IF k \in DOMAIN x.v
            THEN Returned(x.v[k])
            ELSE Raised("KeyError", <<"'" \o k \o "'">>)
      [] x.t = "list" ->
            Raised("TypeError",
                   <<"list indices must be integers or slices, not str">>)
      [] x.t = "str" ->
            Raised("TypeError", <<"string indices must be integers">>)
      [] OTHER ->
            Raised("TypeError",
                   <<"'" \o x.t \o "' object is not subscriptable">>)

\* x[i] for an int index i >= 0
GetIndex(x, i) ==
    CASE x.t = "dict" -> Raised("KeyError", <<ToString(i)>>)
      [] x.t = "list" ->
            IF i < Len(x.v)
            THEN Returned(x.v[i + 1])
            ELSE Raised("IndexError", <<"list index out of range">>)
      [] x.t = "str" ->
            IF i < Len(x.v)
            THEN Returned(JStr(<<x.v[i + 1]>>))
            ELSE Raised("IndexError", <<"string index out of range">>)
      [] OTHER ->
            Raised("TypeError",
                   <<"'" \o x.t \o "' object is not subscriptable">>)

\* result["choices"][0]["message"]["content"], left to right; the first
\* subscript that raises ends the expression
ExtractContent(result) ==
    LET choices == GetKey(result, "choices")
    IN  IF ~choices.ok THEN choices
        ELSE LET first == GetIndex(choices.v, 0)
             IN  IF ~first.ok THEN first
                 ELSE LET message == GetKey(first.v, "message")
                      IN  IF ~message.ok THEN message
                          ELSE GetKey(message.v, "content")

---------------------------------------------------------------------------
(* The exception classes the except clauses name, with their base classes. *)

Bases(exc) ==
    CASE exc = "HTTPError" ->
            {"HTTPError", "RequestException", "Exception"}
      [] exc = "ConnectionError" ->
            {"ConnectionError", "RequestException", "Exception"}
      [] exc = "SSLError" ->
            {"SSLError", "ConnectionError", "RequestException", "Exception"}
      [] exc = "ConnectTimeout" ->
            {"ConnectTimeout", "ConnectionError", "Timeout",
             "RequestException", "Exception"}
      [] exc = "ReadTimeout" ->
            {"ReadTimeout", "Timeout", "RequestException", "Exception"}
      [] exc = "TooManyRedirects" ->
            {"TooManyRedirects", "RequestException", "Exception"}
      [] exc = "JSONDecodeError" ->
            {"JSONDecodeError", "json.JSONDecodeError", "RequestException",
             "ValueError", "Exception"}
      [] exc = "KeyError" -> {"KeyError", "LookupError", "Exception"}
      [] exc = "IndexError" -> {"IndexError", "LookupError", "Exception"}
      [] OTHER -> {exc, "Exception"}

\* str(e) of the HTTPError that raise_for_status builds
HTTPErrorText(status) ==
    <<ToString(status),
      IF status < 500 THEN " Client Error" ELSE " Server Error",
      " for url: " \o GROQ_API_URL>>

\* response.raise_for_status(): raises for 400 <= status < 600
RaisesForStatus(status) == 400 <= status /\ status < 600

\* The try block: requests.post, raise_for_status, json(), the subscripts.
\* An outcome o of requests.post either raises or is a response.
TryBlock(o) ==
    IF o.kind = "raise"
    THEN Raised(o.exc, o.arg)
    ELSE IF RaisesForStatus(o.status)
    THEN Raised("HTTPError", HTTPErrorText(o.status))
    ELSE IF ~o.body.json
    THEN Raised("JSONDecodeError", <<"Expecting value: line 1 column 1 (char 0)">>)
    ELSE ExtractContent(o.body.value)

AUTH_FAILED ==
    <<"Authentication failed. Please check your Groq API key in .env file.">>

RATE_LIMIT ==
    <<"Rate limit reached. Please wait a moment before trying again.">>

CONNECTION_ERROR ==
    <<"Connection error. Please check your internet connection.">>

TIMED_OUT ==
    <<"Request timed out. The API might be busy, please try again.">>

INVALID_FORMAT == <<"Invalid response format from API.">>

PROMPT_FOR_INPUT ==
    <<"I sense the quiet before an adventure... What's stirring in your traveler's heart?">>

ApiErrorText(status, e) ==
    <<"API error (", ToString(status), "): ">> \o e.arg

MissingFieldText(e) == <<"Unexpected response structure: missing ">> \o e.arg

UnexpectedErrorText(e) == <<"Unexpected error: ">> \o e.arg

\* the except clauses with Timeout tried before ConnectionError
ExceptClauses_TimeoutFirst(o, e) ==
    IF "HTTPError" \in Bases(e.exc)
    THEN IF o.status = 401 THEN AUTH_FAILED
         ELSE IF o.status = 429 THEN RATE_LIMIT
         ELSE ApiErrorText(o.status, e)
    ELSE IF "Timeout" \in Bases(e.exc) THEN TIMED_OUT
    ELSE IF "ConnectionError" \in Bases(e.exc) THEN CONNECTION_ERROR
    ELSE IF "json.JSONDecodeError" \in Bases(e.exc) THEN INVALID_FORMAT
    ELSE IF "KeyError" \in Bases(e.exc) THEN MissingFieldText(e)
    ELSE UnexpectedErrorText(e)

\* the except clauses with `except LookupError` in place of `except KeyError`
ExceptClauses_LookupError(o, e) ==
    IF "HTTPError" \in Bases(e.exc)
    THEN IF o.status = 401 THEN AUTH_FAILED
         ELSE IF o.status = 429 THEN RATE_LIMIT
         ELSE ApiErrorText(o.status, e)
    ELSE IF "ConnectionError" \in Bases(e.exc) THEN CONNECTION_ERROR
    ELSE IF "Timeout" \in Bases(e.exc) THEN TIMED_OUT
    ELSE IF "json.JSONDecodeError" \in Bases(e.exc) THEN INVALID_FORMAT
    ELSE IF "LookupError" \in Bases(e.exc) THEN MissingFieldText(e)
    ELSE UnexpectedErrorText(e)

\* The except clauses, tried in their order; e is the exception raised
ExceptClauses(o, e) ==
    IF "HTTPError" \in Bases(e.exc)
    THEN IF o.status = 401 THEN AUTH_FAILED
         ELSE IF o.status = 429 THEN RATE_LIMIT
         ELSE ApiErrorText(o.status, e)
    ELSE IF "ConnectionError" \in Bases(e.exc) THEN CONNECTION_ERROR
    ELSE IF "Timeout" \in Bases(e.exc) THEN TIMED_OUT
    ELSE IF "json.JSONDecodeError" \in Bases(e.exc) THEN INVALID_FORMAT
    ELSE IF "KeyError" \in Bases(e.exc) THEN MissingFieldText(e)
    ELSE UnexpectedErrorText(e)

\* what _make_api_request returns once requests.post has had outcome o:
\* the content value as it is, or the text of the except clause that matched
MapOutcome(o) ==
    LET r == TryBlock(o)
    IN  IF r.ok THEN r.v ELSE JStr(ExceptClauses(o, r))

---------------------------------------------------------------------------
(* The request _make_api_request builds. *)

\* the user turn appended to the caller's list instead of to a copy
BuildMessages_InPlace(user_message, conversation_history) ==
    LET grown == Append_(conversation_history, UserTurn(user_message))
    IN  [messages |-> <<SystemTurn>> \o LastSlice(grown, HistoryWindow + 1),
         conversation_history |-> grown]

\* messages = [system]; messages.extend(conversation_history[-10:]);
\* messages.append(user turn).  The slice is a copy, so the list object
\* conversation_history is the same after the three statements.
BuildMessages(user_message, conversation_history) ==
    LET m1 == <<SystemTurn>>
        m2 == m1 \o LastSlice(conversation_history, HistoryWindow)
        m3 == Append_(m2, UserTurn(user_message))
    IN  [messages |-> m3, conversation_history |-> conversation_history]

Payload(msgs) ==
    [model |-> MODEL_NAME, messages |-> msgs, max_tokens |-> MaxTokens,
     temperature |-> "0.8", stream |-> FALSE]

\* requests.post(GROQ_API_URL, headers=headers, json=payload, timeout=30)
PostCall(api_key, payload) ==
    [sent |-> TRUE, url |-> GROQ_API_URL,
     headers |-> [Authorization |-> "Bearer " \o api_key,
                  ContentType |-> "application/json"],
     json |-> payload, timeout |-> RequestTimeout]

NoRequest == [sent |-> FALSE]

NoResponse == [returned |-> FALSE]

NoOutcome == [kind |-> "none"]

NoClient == [made |-> FALSE]

\* AncyTravelGuide(api_key)
AncyTravelGuide(api_key) == [made |-> TRUE, api_key |-> api_key]

\* the test without strip(): `not user_input`
ChatIsBlank_NoStrip(text) == ~Truthy(text)

\* chat: `not user_input.strip()`
ChatIsBlank(text) == ~Truthy(Strip(text))

---------------------------------------------------------------------------
(* What requests.post can do, and what the service can answer. *)

InvalidBody == [json |-> FALSE]

JsonBody(value) == [json |-> TRUE, value |-> value]

ChoicesBody(choices) == JsonBody(JObj([choices |-> choices]))

MessageBody(message) == ChoicesBody(JList(<<JObj([message |-> message])>>))

\* {"choices": [{"message": {"content": content}}]}
ContentBody(content) == MessageBody(JObj([content |-> content]))

BONJOUR == <<"Bonjour!">>

JsonBodies ==
    { ContentBody(JStr(BONJOUR)),
      ContentBody(JStr(AUTH_FAILED)),
      ContentBody(JStr(<<>>)),
      ContentBody(JNull),
      JsonBody(EmptyDict),
      JsonBody(JObj([error |-> JStr(<<"oops">>)])),
      ChoicesBody(JList(<<>>)),
      ChoicesBody(JList(<<EmptyDict>>)),
      ChoicesBody(JList(<<JStr(<<"x">>)>>)),
      ChoicesBody(EmptyDict),
      ChoicesBody(JStr(<<"a", "b">>)),
      ChoicesBody(JNull),
      MessageBody(EmptyDict),
      MessageBody(JStr(<<"h", "i">>)),
      MessageBody(JNull),
      JsonBody(JList(<<>>)),
      JsonBody(JList(<<EmptyDict>>)),
      JsonBody(JStr(<<"o", "k">>)),
      JsonBody(JNull) }

Bodies == JsonBodies \cup {InvalidBody}

Statuses == {200, 201, 204, 304, 400, 401, 404, 429, 500, 503}

RaiseOutcome(exc, arg) == [kind |-> "raise", exc |-> exc, arg |-> arg]

ResponseOutcome(status, body) ==
    [kind |-> "response", status |-> status, body |-> body]

RaiseOutcomes ==
    { RaiseOutcome("ConnectionError", <<"Connection refused">>),
      RaiseOutcome("SSLError", <<"certificate verify failed">>),
      RaiseOutcome("ConnectTimeout", <<"connect timeout=30">>),
      RaiseOutcome("ReadTimeout", <<"read timeout=30">>),
      RaiseOutcome("TooManyRedirects", <<"Exceeded 30 redirects.">>) }

\* every status with a good, a truncated and an invalid body; status 200
\* with every body
Outcomes ==
    RaiseOutcomes
    \cup { ResponseOutcome(200, b) : b \in Bodies }
    \cup { ResponseOutcome(st, b) :
             st \in Statuses,
             b \in {ContentBody(JStr(BONJOUR)), JsonBody(EmptyDict), InvalidBody} }

\* the outcomes the session specification draws from
SessionOutcomes ==
    { ResponseOutcome(200, ContentBody(JStr(BONJOUR))),
      ResponseOutcome(401, InvalidBody),
      RaiseOutcome("ReadTimeout", <<"read timeout=30">>) }

HI == <<"H", "i">>

\* the texts a caller of chat passes in the client specification
Texts == { <<>>, <<" ">>, <<" ", "\t", "\n">>, HI, <<" ">> \o HI \o <<" ">> }

\* the texts the form submits in the session specification
SessionTexts == { <<>>, <<" ", " ">>, HI }

NumberedTurn(i) ==
    [role |-> IF i % 2 = 1 THEN "user" ELSE "assistant",
     content |-> JStr(<<"turn ", ToString(i)>>)]

TurnAlphabet == { UserTurn(HI), AssistantTurn(JStr(BONJOUR)), SystemTurn }

\* the histories a caller of chat passes in the client specification:
\* each length up to MaxHist with every position distinct, and every
\* short history over the three roles
Histories ==
    { [i \in 1..k |-> NumberedTurn(i)] : k \in 0..MaxHist }
    \cup UNION { [1..k -> TurnAlphabet] : k \in 0..2 }

---------------------------------------------------------------------------
(* The completion client on its own: one call of chat.                     *)
(* messages is the list object passed as conversation_history.             *)

ValidKey == "gsk_elevenc"

ClientInit ==
    /\ GROQ_API_KEY = [set |-> TRUE, value |-> ValidKey]
    /\ session_keys = {}
    /\ ancy_initialized = FALSE
    /\ ancy = AncyTravelGuide(ValidKey)
    /\ messages \in Histories
    /\ user_input \in Texts
    /\ request = NoRequest
    /\ outcome = NoOutcome
    /\ posts = 0
    /\ response = NoResponse
    /\ pc = "chat"

\* chat, blank input: return the fixed prompt, no request
ChatBlank ==
    /\ pc = "chat"
    /\ ChatIsBlank(user_input)
    /\ response' = [returned |-> TRUE, value |-> JStr(PROMPT_FOR_INPUT)]
    /\ pc' = "returned"
    /\ UNCHANGED <<GROQ_API_KEY, session_keys, messages, ancy_initialized,
                   ancy, user_input, request, outcome, posts>>

\* chat -> _make_api_request up to requests.post, which blocks
ChatPost ==
    /\ pc = "chat"
    /\ ~ChatIsBlank(user_input)
    /\ LET b == BuildMessages(user_input, messages)
       IN  /\ request' = PostCall(ancy.api_key, Payload(b.messages))
           /\ messages' = b.conversation_history
    /\ posts' = posts + 1
    /\ pc' = "posting"
    /\ UNCHANGED <<GROQ_API_KEY, session_keys, ancy_initialized, ancy,
                   user_input, outcome, response>>

\* requests.post ends with outcome o; the rest of the try statement runs
ChatReturn(o) ==
    /\ pc = "posting"
    /\ outcome' = o
    /\ response' = [returned |-> TRUE, value |-> MapOutcome(o)]
    /\ pc' = "returned"
    /\ UNCHANGED <<GROQ_API_KEY, session_keys, messages, ancy_initialized,
                   ancy, user_input, request, posts>>

ClientNext ==
    \/ ChatBlank
    \/ ChatPost
    \/ \E o \in Outcomes : ChatReturn(o)

ClientSpec == ClientInit /\ [][ClientNext]_vars

---------------------------------------------------------------------------
(* The Streamlit page: every action is one run of main, up to the place    *)
(* where the script stops, ends, asks for a rerun or blocks in             *)
(* requests.post.                                                          *)

NoKey == [set |-> FALSE, value |-> ""]

\* the values GROQ_API_KEY can have when the page is served
Keys ==
    { NoKey,
      [set |-> TRUE, value |-> ""],
      [set |-> TRUE, value |-> PLACEHOLDER_KEY],
      [set |-> TRUE, value |-> "gsk_tenchr"],
      [set |-> TRUE, value |-> ValidKey] }

\* truth value of os.getenv's result: None and "" are false
KeyTruthy(k) == k.set /\ k.value # ""

\* the length test with >= in place of >
validate_api_key_ge(api_key) ==
    /\ KeyTruthy(api_key)
    /\ api_key.value # PLACEHOLDER_KEY
    /\ Len(api_key.value) >= MinKeyLen

\* api_key and api_key != "YOUR_GROQ_API_KEY_HERE" and len(api_key) > 10
validate_api_key(api_key) ==
    /\ KeyTruthy(api_key)
    /\ api_key.value # PLACEHOLDER_KEY
    /\ Len(api_key.value) > MinKeyLen

\* if not GROQ_API_KEY or not validate_api_key(GROQ_API_KEY)
KeyRejected == ~KeyTruthy(GROQ_API_KEY) \/ ~validate_api_key(GROQ_API_KEY)

AllSessionKeys == {"messages", "ancy_initialized"}

\* st.session_state.messages after initialize_session_state()
InitializedMessages == IF "messages" \in session_keys THEN messages ELSE <<>>

InitializedFlag ==
    IF "ancy_initialized" \in session_keys THEN ancy_initialized ELSE FALSE

\* the script is not running: a widget event or a pending rerun starts it
CanRun == pc \in {"start", "stopped", "end", "rerun_clear", "rerun_submit"}

\* a rerun asked for by st.rerun() carries no widget event
RerunPending == pc \in {"rerun_clear", "rerun_submit"}

Init ==
    /\ GROQ_API_KEY \in Keys
    /\ session_keys = {}
    /\ messages = <<>>
    /\ ancy_initialized = FALSE
    /\ ancy = NoClient
    /\ user_input = <<>>
    /\ request = NoRequest
    /\ outcome = NoOutcome
    /\ posts = 0
    /\ response = NoResponse
    /\ pc = "start"

\* main with a rejected key: st.error, st.info, st.stop()
MainStop ==
    /\ CanRun
    /\ KeyRejected
    /\ session_keys' = AllSessionKeys
    /\ messages' = InitializedMessages
    /\ ancy_initialized' = InitializedFlag
    /\ pc' = "stopped"
    /\ UNCHANGED <<GROQ_API_KEY, ancy, user_input, request, outcome, posts,
                   response>>

\* the click handled without the assignment messages = []
MainClear_KeepStore ==
    /\ CanRun /\ ~RerunPending
    /\ ~KeyRejected
    /\ session_keys' = AllSessionKeys
    /\ ancy' = AncyTravelGuide(GROQ_API_KEY.value)
    /\ ancy_initialized' = TRUE
    /\ messages' = InitializedMessages
    /\ pc' = "rerun_clear"
    /\ UNCHANGED <<GROQ_API_KEY, user_input, request, outcome, posts,
                   response>>

\* main, "Clear Conversation" clicked: messages = []; st.rerun()
MainClear ==
    /\ CanRun /\ ~RerunPending
    /\ ~KeyRejected
    /\ session_keys' = AllSessionKeys
    /\ ancy' = AncyTravelGuide(GROQ_API_KEY.value)
    /\ ancy_initialized' = TRUE
    /\ messages' = <<>>
    /\ pc' = "rerun_clear"
    /\ UNCHANGED <<GROQ_API_KEY, user_input, request, outcome, posts,
                   response>>

\* main with nothing to handle: no click, and no submitted non-empty text
\* (`submit_button and user_input` is false); runs to the footer
MainShow(submit_button, text) ==
    /\ CanRun
    /\ RerunPending => (~submit_button /\ text = <<>>)
    /\ ~KeyRejected
    /\ ~(submit_button /\ Truthy(text))
    /\ session_keys' = AllSessionKeys
    /\ ancy' = AncyTravelGuide(GROQ_API_KEY.value)
    /\ ancy_initialized' = TRUE
    /\ messages' = InitializedMessages
    /\ pc' = "end"
    /\ UNCHANGED <<GROQ_API_KEY, user_input, request, outcome, posts,
                   response>>

\* main, a non-empty text submitted that chat finds blank: the user turn is
\* appended, chat returns the prompt, it is appended, st.rerun()
MainSubmitBlank(text) ==
    /\ CanRun /\ ~RerunPending
    /\ ~KeyRejected
    /\ Truthy(text)
    /\ ChatIsBlank(text)
    /\ Len(InitializedMessages) + 2 <= MaxStore
    /\ session_keys' = AllSessionKeys
    /\ ancy' = AncyTravelGuide(GROQ_API_KEY.value)
    /\ ancy_initialized' = TRUE
    /\ user_input' = text
    /\ posts' = 0
    /\ response' = [returned |-> TRUE, value |-> JStr(PROMPT_FOR_INPUT)]
    /\ messages' = Append_(Append_(InitializedMessages, UserTurn(text)),
                           AssistantTurn(response'.value))
    /\ pc' = "rerun_submit"
    /\ UNCHANGED <<GROQ_API_KEY, request, outcome>>

\* main, a text submitted that is not blank: the user turn is appended, then
\* chat(user_input, st.session_state.messages) builds the request from that
\* list and blocks in requests.post
MainSubmitPost(text) ==
    /\ CanRun /\ ~RerunPending
    /\ ~KeyRejected
    /\ Truthy(text)
    /\ ~ChatIsBlank(text)
    /\ Len(InitializedMessages) + 2 <= MaxStore
    /\ session_keys' = AllSessionKeys
    /\ ancy' = AncyTravelGuide(GROQ_API_KEY.value)
    /\ ancy_initialized' = TRUE
    /\ user_input' = text
    /\ LET stored == Append_(InitializedMessages, UserTurn(text))
           b == BuildMessages(text, stored)
       IN  /\ request' = PostCall(ancy'.api_key, Payload(b.messages))
           /\ messages' = b.conversation_history
    /\ posts' = 1
    /\ outcome' = NoOutcome
    /\ response' = NoResponse
    /\ pc' = "posting"
    /\ UNCHANGED GROQ_API_KEY

\* requests.post ends with outcome o: chat returns the mapped value, main
\* appends the assistant turn, st.rerun()
MainReceive(o) ==
    /\ pc = "posting"
    /\ outcome' = o
    /\ response' = [returned |-> TRUE, value |-> MapOutcome(o)]
    /\ messages' = Append_(messages, AssistantTurn(response'.value))
    /\ pc' = "rerun_submit"
    /\ UNCHANGED <<GROQ_API_KEY, session_keys, ancy_initialized, ancy,
                   user_input, request, posts>>

Next ==
    \/ MainStop
    \/ MainClear
    \/ \E sb \in BOOLEAN, text \in SessionTexts : MainShow(sb, text)
    \/ \E text \in SessionTexts : MainSubmitBlank(text)
    \/ \E text \in SessionTexts : MainSubmitPost(text)
    \/ \E o \in SessionOutcomes : MainReceive(o)

Spec == Init /\ [][Next]_vars

---------------------------------------------------------------------------
(* Properties of the completion client, checked under ClientSpec.          *)

\* the message list of the request in flight, without its first and last
RequestHistory(req) ==
    SubSeq(req.json.messages, 2, Len(req.json.messages) - 1)

IsBlankText(text) == \A i \in 1..Len(text) : text[i] \in {" ", "\t", "\n"}

StartsWith(value, chunk) ==
    value.t = "str" /\ Len(value.v) >= 1 /\ value.v[1] = chunk

\* C1: the request's message list is the system preamble, then the last
\* min(10, len(history)) turns of the history in their order, then one user
\* turn holding user_text; a history of at most 10 turns is sent whole.
C1_RequestIsPreambleWindowUser ==
    request.sent =>
        LET ms == request.json.messages
            n == Len(messages)
            k == IF n < 10 THEN n ELSE 10
        IN  /\ Len(ms) = k + 2
            /\ ms[1] = [role |-> "system", content |-> JStr(SYSTEM_PROMPT)]
            /\ \A i \in 1..k : ms[1 + i] = messages[n - k + i]
            /\ ms[k + 2] = [role |-> "user", content |-> JStr(user_input)]
            /\ (n <= 10 => RequestHistory(request) = messages)

C1_Witness ==
    /\ pc = "posting"
    /\ Len(messages) > 10
    /\ Len(RequestHistory(request)) = 10

\* the outcome is a response whose body holds choices[0].message.content
HoldsContent(o) ==
    /\ o.kind = "response"
    /\ o.body.json
    /\ o.body.value.t = "dict"
    /\ "choices" \in DOMAIN o.body.value.v
    /\ o.body.value.v.choices.t = "list"
    /\ Len(o.body.value.v.choices.v) >= 1
    /\ o.body.value.v.choices.v[1].t = "dict"
    /\ "message" \in DOMAIN o.body.value.v.choices.v[1].v
    /\ o.body.value.v.choices.v[1].v.message.t = "dict"
    /\ "content" \in DOMAIN o.body.value.v.choices.v[1].v.message.v

ContentOf(o) == o.body.value.v.choices.v[1].v.message.v.content

IsErrorStatus(o) == o.kind = "response" /\ o.status >= 400 /\ o.status <= 599

\* the connection could not be made
IsConnectionFailure(o) ==
    o.kind = "raise" /\ o.exc \in {"ConnectionError", "SSLError", "ConnectTimeout"}

\* the request exceeded the timeout
IsTimeout(o) == o.kind = "raise" /\ o.exc \in {"ConnectTimeout", "ReadTimeout"}

\* C3: the outcome of the call is mapped by the first row of the table that
\* matches: 401, 429, other error status (message with the status code),
\* connection failure, timeout, body that is not JSON; a 2xx response
\* holding a content text returns it verbatim; any other exception of the
\* call gives the generic error message. In each case a str is returned.
C3_OutcomeMapping ==
    (pc = "returned" /\ outcome.kind # "none") =>
        LET o == outcome
            v == response.value
        IN  /\ response.returned
            /\ IF o.kind = "response" /\ o.status = 401
                  THEN v = JStr(AUTH_FAILED)
               ELSE IF o.kind = "response" /\ o.status = 429
                  THEN v = JStr(RATE_LIMIT)
               ELSE IF IsErrorStatus(o)
                  THEN /\ StartsWith(v, "API error (")
                       /\ v.v[2] = ToString(o.status)
               ELSE IF IsConnectionFailure(o)
                  THEN v = JStr(CONNECTION_ERROR)
               ELSE IF IsTimeout(o)
                  THEN v = JStr(TIMED_OUT)
               ELSE IF o.kind = "response" /\ ~o.body.json
                  THEN v = JStr(INVALID_FORMAT)
               ELSE IF o.kind = "raise"
                  THEN /\ StartsWith(v, "Unexpected error: ")
                       /\ SubSeq(v.v, 2, Len(v.v)) = o.arg
               ELSE IF /\ HoldsContent(o) /\ ContentOf(o).t = "str"
                       /\ o.status >= 200 /\ o.status <= 299
                  THEN v = ContentOf(o)
               ELSE TRUE
            /\ (HoldsContent(o) => ContentOf(o).t = "str") => v.t = "str"

C3_Witness ==
    /\ pc = "returned"
    /\ outcome.kind = "raise"
    /\ outcome.exc = "ConnectTimeout"
    /\ response.value = JStr(CONNECTION_ERROR)

\* a 2xx response with a JSON body
IsJson2xx(o) ==
    o.kind = "response" /\ o.status >= 200 /\ o.status <= 299 /\ o.body.json

\* a key of the path is missing from the object that should hold it
MissingKey(o) ==
    LET top == o.body.value
    IN  /\ top.t = "dict"
        /\ \/ "choices" \notin DOMAIN top.v
           \/ /\ top.v.choices.t = "list"
              /\ Len(top.v.choices.v) >= 1
              /\ top.v.choices.v[1].t = "dict"
              /\ \/ "message" \notin DOMAIN top.v.choices.v[1].v
                 \/ /\ top.v.choices.v[1].v.message.t = "dict"
                    /\ "content" \notin DOMAIN top.v.choices.v[1].v.message.v

MissingKeyName(o) ==
    LET top == o.body.value
    IN  IF "choices" \notin DOMAIN top.v THEN "'choices'"
        ELSE IF "message" \notin DOMAIN top.v.choices.v[1].v THEN "'message'"
        ELSE "'content'"

EmptyChoices(o) ==
    /\ o.body.value.t = "dict"
    /\ "choices" \in DOMAIN o.body.value.v
    /\ o.body.value.v.choices = JList(<<>>)

TopLevelNotObject(o) == o.body.value.t # "dict"

IsMissingFieldMessage(v) ==
    StartsWith(v, "Unexpected response structure: missing ")

\* C4 as stated: a 2xx JSON answer with a key of the path missing, with an
\* empty choices list, or with a top-level value that is not an object,
\* gives the missing-field message.
C4_Original ==
    (pc = "returned" /\ IsJson2xx(outcome)
       /\ (MissingKey(outcome) \/ EmptyChoices(outcome)
             \/ TopLevelNotObject(outcome)))
    => IsMissingFieldMessage(response.value)

\* C4 (amended): a 2xx JSON answer in which the key 'choices', 'message' or
\* 'content' is missing from the object that should hold it gives the
\* missing-field message naming that key; an empty choices list and a
\* top-level value that is not an object give the generic unexpected-error
\* message.
C4_MissingKeyNamed ==
    (pc = "returned" /\ IsJson2xx(outcome)) =>
        /\ MissingKey(outcome) =>
              response.value =
                 JStr(<<"Unexpected response structure: missing ",
                        MissingKeyName(outcome)>>)
        /\ (EmptyChoices(outcome) \/ TopLevelNotObject(outcome)) =>
              StartsWith(response.value, "Unexpected error: ")

C4_Witness ==
    /\ pc = "returned"
    /\ IsJson2xx(outcome)
    /\ MissingKey(outcome)
    /\ MissingKeyName(outcome) = "'content'"
    /\ IsMissingFieldMessage(response.value)

\* C5: one call of chat makes no HTTP call when user_text is empty or
\* whitespace only (it returns the fixed prompt) and exactly one otherwise,
\* whatever the outcome of that call.
C5_CallCount ==
    /\ pc = "posting" => (posts = 1 /\ ~IsBlankText(user_input))
    /\ pc = "returned" =>
          IF IsBlankText(user_input)
          THEN /\ posts = 0
               /\ ~request.sent
               /\ response.value = JStr(PROMPT_FOR_INPUT)
          ELSE posts = 1 /\ request.sent

C5_Witness ==
    /\ pc = "returned"
    /\ posts = 1
    /\ outcome.kind = "response"
    /\ outcome.status = 429

\* C10: chat leaves the history list it is given as it was (same length,
\* same turns, same order) at every step of the call, whatever the text and
\* the outcome, and it writes no field of the client object.
C10_HistoryUnchanged == [][messages' = messages /\ ancy' = ancy]_vars

C10_Witness ==
    /\ pc = "returned"
    /\ outcome.kind = "response"
    /\ Len(messages) > 10

---------------------------------------------------------------------------
(* Properties of the session, checked under Spec.                          *)

IsPrefix(s, t) == Len(s) <= Len(t) /\ SubSeq(t, 1, Len(s)) = s

\* C2 as stated: when a submission's request is issued the store is still
\* as it was before the submission, and the history the client was given
\* (whose last 10 turns the request carries) is that store.
C2_StoreUntouchedUntilReturn ==
    [][pc' = "posting" =>
          /\ messages' = messages
          /\ RequestHistory(request') =
                (IF Len(messages) <= 10 THEN messages
                 ELSE SubSeq(messages, Len(messages) - 9, Len(messages)))]_vars

\* C6: between clears the store only grows at its end: every turn stored
\* stays, unchanged and in place, and the length never decreases, also
\* beyond 10 turns; a request carries at most 10 turns of history.
C6_AppendOnlyBetweenClears ==
    /\ [][pc' # "rerun_clear" => IsPrefix(messages, messages')]_vars
    /\ [](request.sent => Len(RequestHistory(request)) <= 10)

C6_Witness ==
    /\ pc = "rerun_submit"
    /\ Len(messages) > 10
    /\ request.sent
    /\ Len(RequestHistory(request)) = 10

\* the key is present, is not the placeholder and is longer than 10
KeyAcceptable(k) ==
    /\ k.set
    /\ k.value # ""
    /\ k.value # "YOUR_GROQ_API_KEY_HERE"
    /\ Len(k.value) > 10

\* C7: the page halts iff the key is not acceptable (absent, empty, the
\* placeholder, or 10 characters or fewer); with such a key no client is
\* ever created, nothing is submitted or posted, and the store stays empty.
C7_KeyGate ==
    /\ pc # "start" => (pc = "stopped" <=> ~KeyAcceptable(GROQ_API_KEY))
    /\ ~KeyAcceptable(GROQ_API_KEY) =>
          /\ pc \in {"start", "stopped"}
          /\ ancy = NoClient
          /\ messages = <<>>
          /\ request = NoRequest
          /\ posts = 0
          /\ response = NoResponse

C7_Witness ==
    /\ pc = "stopped"
    /\ GROQ_API_KEY.set
    /\ Len(GROQ_API_KEY.value) = 10
    /\ "messages" \in session_keys

\* C8: right after a clear the store is the empty sequence whatever it
\* held; every request takes its history from the store as it is then, so
\* the request issued on a cleared store carries only the submitted text.
C8_ClearEmptiesStore ==
    /\ pc = "rerun_clear" => messages = <<>>
    /\ pc = "posting" =>
          LET h == RequestHistory(request)
          IN  /\ Len(h) <= Len(messages)
              /\ \A i \in 1..Len(h) :
                    h[i] = messages[Len(messages) - Len(h) + i]
              /\ Len(messages) = 1 =>
                    \A i \in 1..Len(h) :
                       h[i] = [role |-> "user", content |-> JStr(user_input)]

C8_Witness ==
    /\ pc = "rerun_clear"
    /\ response.returned
    /\ request.sent
    /\ Len(RequestHistory(request)) > 1

===========================================================================
